---------------------------- MODULE Spec2Model ----------------------------
(***************************************************************************)
(* A model of the QGL sequence compiler (src/Compiler.py): align,          *)
(* create_padding_LL, compile_sequence (link-list builder and phase/frame  *)
(* pass) and compile_sequences.                                            *)
(*                                                                         *)
(* Samples.  A complex sample amp*exp(i*ang) is the pair <<amp, ang>>,     *)
(* with the angle an integer number of radians.  One radian is not a       *)
(* rational part of a turn, so two rotations give the same non-zero sample *)
(* only when the angles are equal; exp(1j*0) is exactly 1.  A zero         *)
(* amplitude keeps its angle (the sign bits of a floating zero), and every *)
(* zero is numerically equal to, and hashes like, 0j.                      *)
(*                                                                         *)
(* Division.  padLength/2 in align is integer division under Python 2 and  *)
(* true division under Python 3; the interpreter is not fixed by the       *)
(* source, so trueDiv is chosen freely in the initial state.               *)
(*                                                                         *)
(* Blocks.  A block's maxPts is the largest sample count of its pulses.    *)
(***************************************************************************)
EXTENDS Integers, Sequences, FiniteSets, TLC

VARIABLES
    trueDiv,        \* TRUE: `/` is true division (Python 3); FALSE: integer division (Python 2)
    entryPoint,     \* the function the caller invokes
    seqs,           \* the argument of compile_sequences
    si,             \* compile_sequences: index of the sequence being compiled
    linkLists,      \* compile_sequences: chan -> list of mini-LLs
    seq,            \* compile_sequence: the sequence being compiled
    channels,       \* compile_sequence: find_unique_channels(seq)
    logicalLLs,     \* compile_sequence: chan -> mini-LL
    wfLib,          \* the waveform library in use: chan -> (key -> shape)
    defaultWfLib,   \* the object bound to compile_sequence's default wfLib = {}
    bi,             \* link-list builder: index of the next block
    passTodo,       \* phase/frame pass: channels not yet visited
    passChan,       \* phase/frame pass: the channel being visited
    ei,             \* phase/frame pass: index of the next entry
    curFrame,       \* phase/frame pass: the running frame
    pc,             \* position of the program
    result,         \* the value returned to the caller
    err,            \* the exception that ended the call
    alignIn,        \* argument of a stand-alone call of align
    alignOut,       \* what that call returned
    pending,        \* the sequences the caller compiles after this one
    prevResult,     \* what the previous call of compile_sequence returned
    store,          \* ChannelLibrary: the committed ChannelDatabase rows
    session,        \* ChannelLibrary: the rows as the session sees them
    sessionNew,     \* ChannelLibrary: session.new, ids of the rows concerned
    sessionDirty,   \* ChannelLibrary: session.dirty, ids of the rows concerned
    channelDatabase, \* ChannelLibrary: id of the row self.channelDatabase refers to
    channelDict,    \* ChannelLibrary: label -> id of the row owning the channel
    clock,          \* the last value datetime.datetime.now() returned
    nextId,         \* the next primary key the store hands out
    objects,        \* ChannelLibrary: items constructed that belong to no row
    call            \* ChannelLibrary: the last call the caller made

callVars == <<pending, prevResult>>

libVars == <<store, session, sessionNew, sessionDirty, channelDatabase,
             channelDict, clock, nextId, objects, call>>

compilerVars == <<trueDiv, entryPoint, seqs, si, linkLists, seq, channels,
                  logicalLLs, wfLib, defaultWfLib, bi, passTodo, passChan, ei,
                  curFrame, alignIn, alignOut>>

vars == <<trueDiv, entryPoint, seqs, si, linkLists, seq, channels, logicalLLs,
          wfLib, defaultWfLib, bi, passTodo, passChan, ei, curFrame, pc,
          result, err, alignIn, alignOut, callVars, libVars>>

-----------------------------------------------------------------------------
(* Bounds of the exploration *)

MaxBlocks == 3      \* blocks in a sequence handed to compile_sequence
MaxSeqs == 2        \* sequences in a program handed to compile_sequences
MaxProgBlocks == 1  \* blocks in each sequence of such a program
MaxExtraPad == 2    \* align: padLength runs up to 2*cutoff + MaxExtraPad
MaxDbId == 4        \* ChannelLibrary: primary keys the store hands out
MaxObjects == 2     \* ChannelLibrary: items new_TDM constructs

cutoff == 12        \* align(pulse, blockLength, alignment, cutoff=12)

None == "None"
Alignments == {"left", "right", "center"}

-----------------------------------------------------------------------------
(* Samples and shapes *)

ZeroSample == <<0, 0>>

\* np.zeros(n)
zeros(n) == [i \in 1..n |-> ZeroSample]

\* a constant shape of n samples of amplitude a
const(n, a) == [i \in 1..n |-> <<a, 0>>]

\* the numeric value of a sample: every zero is the same number
Value(s) == IF s[1] = 0 THEN ZeroSample ELSE s

\* shape[i] == shape[j] as numpy compares them
NumEq(s, t) == Value(s) = Value(t)

\* sample * np.exp(1j*theta)
Rotate(s, theta) == <<s[1], s[2] + theta>>

RotateShape(shape, theta) == [i \in 1..Len(shape) |-> Rotate(shape[i], theta)]

\* np.all(shape == shape[0]), for a non-empty shape
AllEqual(shape) == \A i \in 1..Len(shape) : NumEq(shape[i], shape[1])

\* hash(tuple(shape)): a function of the numeric values, in order; taken to be
\* free of collisions
hash_pulse(shape) == [i \in 1..Len(shape) |-> Value(shape[i])]

TAZKey == hash_pulse(zeros(1))

-----------------------------------------------------------------------------
(* LLElement *)

\* LLElement(pulse)
LLElement(pulse) ==
    [ repeat |-> 1, isTimeAmp |-> FALSE, hasTrigger |-> FALSE,
      triggerDelay1 |-> 0, triggerDelay2 |-> 0,
      key |-> hash_pulse(pulse.shape), length |-> Len(pulse.shape),
      phase |-> pulse.phase, frameChange |-> pulse.frameChange ]

\* LLElement(): pulse is None
LLElementNone ==
    [ repeat |-> 1, isTimeAmp |-> FALSE, hasTrigger |-> FALSE,
      triggerDelay1 |-> 0, triggerDelay2 |-> 0,
      key |-> None, length |-> 0, phase |-> 0, frameChange |-> 0 ]

create_padding_LL(length) ==
    [LLElementNone EXCEPT !.isTimeAmp = TRUE, !.key = TAZKey, !.length = length]

\* np.floor(padLength/2): the same under both divisions
FloorHalf(padLength) == padLength \div 2

\* np.ceil(padLength/2): under integer division the quotient is already whole
CeilHalf(padLength, td) ==
    IF td THEN (padLength + 1) \div 2 ELSE padLength \div 2

\* align(pulse, blockLength, alignment): the pair (shape, entries)
align(pulse, blockLength, alignment, td) ==
    LET entry0 == [LLElement(pulse) EXCEPT !.length = blockLength,
                                           !.key = hash_pulse(pulse.shape),
                                           !.phase = pulse.phase,
                                           !.frameChange = pulse.frameChange]
        padLength == blockLength - Len(pulse.shape)
        shape == pulse.shape
    IN  IF padLength = 0 THEN
            [wf |-> shape, entries |-> <<entry0>>]
        ELSE IF padLength < cutoff /\ (alignment = "left" \/ alignment = "right") THEN
            LET padded == IF alignment = "left"
                          THEN shape \o zeros(padLength)
                          ELSE zeros(padLength) \o shape
            IN  [wf |-> padded,
                 entries |-> <<[entry0 EXCEPT !.key = hash_pulse(padded)]>>]
        ELSE IF padLength < 2 * cutoff /\ alignment = "center" THEN
            LET padded == zeros(FloorHalf(padLength)) \o shape
                            \o zeros(CeilHalf(padLength, td))
            IN  [wf |-> padded,
                 entries |-> <<[entry0 EXCEPT !.key = hash_pulse(padded)]>>]
        ELSE IF alignment = "left" THEN
            [wf |-> shape, entries |-> <<entry0, create_padding_LL(padLength)>>]
        ELSE IF alignment = "right" THEN
            [wf |-> shape, entries |-> <<create_padding_LL(padLength), entry0>>]
        ELSE
            [wf |-> shape,
             entries |-> <<create_padding_LL(FloorHalf(padLength)), entry0,
                           create_padding_LL(CeilHalf(padLength, td))>>]

RECURSIVE SumLength(_)
\* the sum of `length` over the entries of a mini-LL
SumLength(ll) ==
    IF ll = <<>> THEN 0 ELSE ll[1].length + SumLength(Tail(ll))

-----------------------------------------------------------------------------
(* Inputs: pulses, blocks, sequences, programs *)

Pulse(shape, phase, frameChange) ==
    [shape |-> shape, phase |-> phase, frameChange |-> frameChange]

K1 == const(1, 1)                    \* one constant sample
R2 == <<(<<1, 0>>), (<<2, 0>>)>>     \* two different samples
L13 == const(cutoff + 1, 1)          \* pads a one-sample pulse by cutoff
L26 == const(2 * cutoff + 2, 1)      \* pads a one-sample pulse by 2*cutoff + 1
Empty == <<>>                        \* a pulse of no samples

Max(S) == CHOOSE m \in S : \A n \in S : n <= m

\* a block of pulses: maxPts is the largest sample count of its pulses
Block(pulses, alignment) ==
    [pulses |-> pulses,
     maxPts |-> Max({Len(pulses[c].shape) : c \in DOMAIN pulses}),
     alignment |-> alignment]

\* the blocks sequences are made of
TestBlocks ==
    { Block("A" :> Pulse(K1, 0, 0), "left"),
      Block("A" :> Pulse(K1, 1, 1), "left"),
      Block(("A" :> Pulse(R2, 0, 1)) @@ ("B" :> Pulse(K1, 0, 0)), "right"),
      Block("B" :> Pulse(R2, 1, 0), "left"),
      Block(("A" :> Pulse(K1, 0, 1)) @@ ("B" :> Pulse(L13, 0, 0)), "left"),
      Block(("A" :> Pulse(R2, 1, 1)) @@ ("B" :> Pulse(L13, 0, 0)), "center"),
      Block(("A" :> Pulse(K1, 1, 0)) @@ ("B" :> Pulse(L26, 0, 0)), "center"),
      Block(("A" :> Pulse(Empty, 0, 0)) @@ ("B" :> Pulse(Empty, 0, 0)), "left"),
      Block(("A" :> Pulse(Empty, 0, 0)) @@ ("B" :> Pulse(K1, 0, 0)), "center") }

\* the blocks the sequences of a program are made of
ProgBlocks ==
    { Block("A" :> Pulse(K1, 0, 0), "left"),
      Block("A" :> Pulse(K1, 1, 1), "left"),
      Block(("A" :> Pulse(R2, 0, 1)) @@ ("B" :> Pulse(K1, 0, 0)), "right") }

\* the sequences of at most n elements of S
SeqsUpTo(S, n) == UNION { [1..k -> S] : k \in 0..n }

DirectSeqs == SeqsUpTo(TestBlocks, MaxBlocks)

ProgSeqs == SeqsUpTo(ProgBlocks, MaxProgBlocks)

\* the argument of compile_sequences: a list of sequences (nested), or a flat
\* list of blocks
Programs ==
    { [nested |-> TRUE, items |-> p] : p \in SeqsUpTo(ProgSeqs, MaxSeqs) \ {<<>>} }
    \cup { [nested |-> FALSE, items |-> p] : p \in ProgSeqs }

NoProgram == [nested |-> FALSE, items |-> <<>>]

-----------------------------------------------------------------------------
(* compile_sequence, step by step *)

EmptyDict == <<>>

\* find_unique_channels(seq)
find_unique_channels(s) == UNION { DOMAIN s[i].pulses : i \in 1..Len(s) }

\* InitLib with the library of every channel of the sequence set up anew,
\* the test `chan not in wfLib` of line 83 lost
InitLib_reset(lib, chs) ==
    [c \in (DOMAIN lib) \cup chs |->
        IF c \in chs THEN (TAZKey :> zeros(1)) ELSE lib[c]]

\* lines 80-84: an empty mini-LL for each channel, and the reserved all-zero
\* waveform for each channel new to the library
InitLib(lib, chs) ==
    [c \in (DOMAIN lib) \cup chs |->
        IF c \in DOMAIN lib THEN lib[c] ELSE (TAZKey :> zeros(1))]

\* line 96 looks hash_pulse(wf) up among the keys of wfLib, which are channel
\* ids, never hashes: the test `not in wfLib` always succeeds
HashInWfLib(h, lib) == FALSE

\* BlockEntries with the padding entry of line 101 appended for every
\* channel, the `else` of line 100 lost
BlockEntries_alwaysPad(block, chan, td) ==
    IF chan \in DOMAIN block.pulses
    THEN Append(align(block.pulses[chan], block.maxPts, block.alignment, td).entries,
                create_padding_LL(block.maxPts))
    ELSE <<create_padding_LL(block.maxPts)>>

\* lines 92-101 for one channel: what is appended to its mini-LL
BlockEntries(block, chan, td) ==
    IF chan \in DOMAIN block.pulses
    THEN align(block.pulses[chan], block.maxPts, block.alignment, td).entries
    ELSE <<create_padding_LL(block.maxPts)>>

\* lines 95-97 for one channel: the library of that channel after the block
BlockLib(block, chan, lib, td) ==
    IF chan \in DOMAIN block.pulses
    THEN LET wf == align(block.pulses[chan], block.maxPts, block.alignment, td).wf
         IN  IF ~HashInWfLib(hash_pulse(wf), lib)
             THEN (hash_pulse(wf) :> wf) @@ lib[chan]
             ELSE lib[chan]
    ELSE lib[chan]

\* BuildBlock with an identity entry emitted for a block of no samples
\* instead of the `continue` of line 91
BuildBlock_padZero(block, lls, lib, chs, td) ==
    IF block.maxPts = 0 THEN
        [LLs |-> [c \in DOMAIN lls |-> Append(lls[c], create_padding_LL(0))],
         lib |-> lib]
    ELSE
        [LLs |-> [c \in DOMAIN lls |-> lls[c] \o BlockEntries(block, c, td)],
         lib |-> [c \in DOMAIN lib |->
                    IF c \in chs THEN BlockLib(block, c, lib, td) ELSE lib[c]]]

\* lines 88-101: one block; the mini-LLs and the library afterwards
BuildBlock(block, lls, lib, chs, td) ==
    IF block.maxPts = 0 THEN
        [LLs |-> lls, lib |-> lib]
    ELSE
        [LLs |-> [c \in DOMAIN lls |-> lls[c] \o BlockEntries(block, c, td)],
         lib |-> [c \in DOMAIN lib |->
                    IF c \in chs THEN BlockLib(block, c, lib, td) ELSE lib[c]]]

\* PassEntry with curFrame advanced before the rotation, not after it
PassEntry_ownFrame(entry, chanLib, frame) ==
    IF entry.key \notin DOMAIN chanLib THEN
        [error |-> "KeyError", entry |-> entry, lib |-> chanLib, frame |-> frame]
    ELSE IF Len(chanLib[entry.key]) = 0 THEN
        [error |-> "IndexError", entry |-> entry, lib |-> chanLib, frame |-> frame]
    ELSE
        LET copied == chanLib[entry.key]
            isConst == AllEqual(copied)
            shape1 == IF isConst THEN SubSeq(copied, 1, 1) ELSE copied
            shape == RotateShape(shape1, entry.phase + frame + entry.frameChange)
            shapeHash == hash_pulse(shape)
        IN  [error |-> None,
             entry |-> [entry EXCEPT !.isTimeAmp = IF isConst THEN TRUE ELSE @,
                                     !.key = shapeHash],
             lib |-> IF shapeHash \notin DOMAIN chanLib
                     THEN (shapeHash :> shape) @@ chanLib
                     ELSE chanLib,
             frame |-> frame + entry.frameChange]

\* PassEntry with `entry.key = shapeHash` inside the `if` of line 119
PassEntry_rebindWhenNew(entry, chanLib, frame) ==
    IF entry.key \notin DOMAIN chanLib THEN
        [error |-> "KeyError", entry |-> entry, lib |-> chanLib, frame |-> frame]
    ELSE IF Len(chanLib[entry.key]) = 0 THEN
        [error |-> "IndexError", entry |-> entry, lib |-> chanLib, frame |-> frame]
    ELSE
        LET copied == chanLib[entry.key]
            isConst == AllEqual(copied)
            shape1 == IF isConst THEN SubSeq(copied, 1, 1) ELSE copied
            shape == RotateShape(shape1, entry.phase + frame)
            shapeHash == hash_pulse(shape)
        IN  [error |-> None,
             entry |-> [entry EXCEPT !.isTimeAmp = IF isConst THEN TRUE ELSE @,
                                     !.key = IF shapeHash \notin DOMAIN chanLib
                                            THEN shapeHash ELSE @],
             lib |-> IF shapeHash \notin DOMAIN chanLib
                     THEN (shapeHash :> shape) @@ chanLib
                     ELSE chanLib,
             frame |-> frame + entry.frameChange]

\* PassEntry with `entry.isTimeAmp = True` outside the `if` of line 112
PassEntry_alwaysTimeAmp(entry, chanLib, frame) ==
    IF entry.key \notin DOMAIN chanLib THEN
        [error |-> "KeyError", entry |-> entry, lib |-> chanLib, frame |-> frame]
    ELSE IF Len(chanLib[entry.key]) = 0 THEN
        [error |-> "IndexError", entry |-> entry, lib |-> chanLib, frame |-> frame]
    ELSE
        LET copied == chanLib[entry.key]
            isConst == AllEqual(copied)
            shape1 == IF isConst THEN SubSeq(copied, 1, 1) ELSE copied
            shape == RotateShape(shape1, entry.phase + frame)
            shapeHash == hash_pulse(shape)
        IN  [error |-> None,
             entry |-> [entry EXCEPT !.isTimeAmp = TRUE,
                                     !.key = shapeHash],
             lib |-> IF shapeHash \notin DOMAIN chanLib
                     THEN (shapeHash :> shape) @@ chanLib
                     ELSE chanLib,
             frame |-> frame + entry.frameChange]

\* PassEntry without the insertion of lines 119-120
PassEntry_noInsert(entry, chanLib, frame) ==
    IF entry.key \notin DOMAIN chanLib THEN
        [error |-> "KeyError", entry |-> entry, lib |-> chanLib, frame |-> frame]
    ELSE IF Len(chanLib[entry.key]) = 0 THEN
        [error |-> "IndexError", entry |-> entry, lib |-> chanLib, frame |-> frame]
    ELSE
        LET copied == chanLib[entry.key]
            isConst == AllEqual(copied)
            shape1 == IF isConst THEN SubSeq(copied, 1, 1) ELSE copied
            shape == RotateShape(shape1, entry.phase + frame)
            shapeHash == hash_pulse(shape)
        IN  [error |-> None,
             entry |-> [entry EXCEPT !.isTimeAmp = IF isConst THEN TRUE ELSE @,
                                     !.key = shapeHash],
             lib |-> chanLib,
             frame |-> frame + entry.frameChange]

\* PassEntry with the entry's phase set to zero once the waveform is rotated
PassEntry_clearPhase(entry, chanLib, frame) ==
    IF entry.key \notin DOMAIN chanLib THEN
        [error |-> "KeyError", entry |-> entry, lib |-> chanLib, frame |-> frame]
    ELSE IF Len(chanLib[entry.key]) = 0 THEN
        [error |-> "IndexError", entry |-> entry, lib |-> chanLib, frame |-> frame]
    ELSE
        LET copied == chanLib[entry.key]
            isConst == AllEqual(copied)
            shape1 == IF isConst THEN SubSeq(copied, 1, 1) ELSE copied
            shape == RotateShape(shape1, entry.phase + frame)
            shapeHash == hash_pulse(shape)
        IN  [error |-> None,
             entry |-> [entry EXCEPT !.isTimeAmp = IF isConst THEN TRUE ELSE @,
                                     !.key = shapeHash,
                                     !.phase = 0],
             lib |-> IF shapeHash \notin DOMAIN chanLib
                     THEN (shapeHash :> shape) @@ chanLib
                     ELSE chanLib,
             frame |-> frame + entry.frameChange]

\* lines 108-122 for one entry: the entry, the channel's library and the
\* running frame afterwards; error names the exception raised instead
PassEntry(entry, chanLib, frame) ==
    IF entry.key \notin DOMAIN chanLib THEN
        [error |-> "KeyError", entry |-> entry, lib |-> chanLib, frame |-> frame]
    ELSE IF Len(chanLib[entry.key]) = 0 THEN
        [error |-> "IndexError", entry |-> entry, lib |-> chanLib, frame |-> frame]
    ELSE
        LET copied == chanLib[entry.key]
            isConst == AllEqual(copied)
            shape1 == IF isConst THEN SubSeq(copied, 1, 1) ELSE copied
            shape == RotateShape(shape1, entry.phase + frame)
            shapeHash == hash_pulse(shape)
        IN  [error |-> None,
             entry |-> [entry EXCEPT !.isTimeAmp = IF isConst THEN TRUE ELSE @,
                                     !.key = shapeHash],
             lib |-> IF shapeHash \notin DOMAIN chanLib
                     THEN (shapeHash :> shape) @@ chanLib
                     ELSE chanLib,
             frame |-> frame + entry.frameChange]

RECURSIVE BuildFrom(_, _, _, _, _, _)
\* lines 86-101: the blocks of s from the i-th on
BuildFrom(s, i, lls, lib, chs, td) ==
    IF i > Len(s) THEN [LLs |-> lls, lib |-> lib]
    ELSE LET r == BuildBlock(s[i], lls, lib, chs, td)
         IN  BuildFrom(s, i + 1, r.LLs, r.lib, chs, td)

RECURSIVE PassFrom(_, _, _, _)
\* lines 106-122: the entries of a mini-LL from the i-th on
PassFrom(ll, chanLib, frame, i) ==
    IF i > Len(ll) THEN [error |-> None, ll |-> ll, lib |-> chanLib]
    ELSE LET r == PassEntry(ll[i], chanLib, frame)
         IN  IF r.error # None
             THEN [error |-> r.error, ll |-> ll, lib |-> chanLib]
             ELSE PassFrom([ll EXCEPT ![i] = r.entry], r.lib, r.frame, i + 1)

\* lines 104-122 for one channel: curFrame starts at 0
PassChannel(ll, chanLib) == PassFrom(ll, chanLib, 0, 1)

\* compile_sequence(seq, wfLib) as a function of its arguments.  A channel's
\* mini-LL and library are read and written by that channel's iteration only.
compile_sequence(s, lib, td) ==
    LET chs == find_unique_channels(s)
        built == BuildFrom(s, 1, [c \in chs |-> <<>>], InitLib(lib, chs), chs, td)
        passed == [c \in chs |-> PassChannel(built.LLs[c], built.lib[c])]
    IN  [error |-> IF \E c \in chs : passed[c].error # None
                   THEN passed[CHOOSE c \in chs : passed[c].error # None].error
                   ELSE None,
         LLs |-> [c \in chs |-> passed[c].ll],
         wfLib |-> [c \in DOMAIN built.lib |->
                      IF c \in chs THEN passed[c].lib ELSE built.lib[c]]]

\* wfLib is the default-argument object when compile_sequence is called
\* without a library: what is written to one is written to the other
SetLib(newLib) ==
    /\ wfLib' = newLib
    /\ defaultWfLib' = IF entryPoint = "compile_sequence" THEN newLib ELSE defaultWfLib

Fail(e) ==
    /\ err' = e
    /\ pc' = "error"

\* no further call is planned and no ChannelLibrary exists
NoLaterCalls ==
    /\ pending = <<>>
    /\ prevResult = None

NoLibrary ==
    /\ store = {}
    /\ session = {}
    /\ sessionNew = {}
    /\ sessionDirty = {}
    /\ channelDatabase = 0
    /\ channelDict = <<>>
    /\ clock = 0
    /\ nextId = 1
    /\ objects = 0
    /\ call = None

Init ==
    /\ trueDiv \in BOOLEAN
    /\ \/ /\ entryPoint = "compile_sequence"
          /\ seq \in DirectSeqs
          /\ seqs = NoProgram
       \/ /\ entryPoint = "compile_sequences"
          /\ seqs \in Programs
          /\ seq = <<>>
    /\ si = 0
    /\ linkLists = EmptyDict
    /\ channels = {}
    /\ logicalLLs = EmptyDict
    /\ wfLib = EmptyDict
    /\ defaultWfLib = EmptyDict
    /\ bi = 0
    /\ passTodo = {}
    /\ passChan = None
    /\ ei = 0
    /\ curFrame = 0
    /\ pc = "start"
    /\ result = None
    /\ err = None
    /\ alignIn = None
    /\ alignOut = None
    /\ NoLaterCalls
    /\ NoLibrary

\* the caller invokes compile_sequence(seq): wfLib is the default object
call_compile_sequence ==
    /\ pc = "start"
    /\ entryPoint = "compile_sequence"
    /\ wfLib' = defaultWfLib
    /\ pc' = "enter"
    /\ UNCHANGED <<callVars, libVars, trueDiv, entryPoint, seqs, si, linkLists, seq, channels,
                   logicalLLs, defaultWfLib, bi, passTodo, passChan, ei,
                   curFrame, result, err, alignIn, alignOut>>

\* compile_sequences, lines 53-57 and 63-64
compile_sequences_start ==
    /\ pc = "start"
    /\ entryPoint = "compile_sequences"
    /\ IF seqs.items = <<>> THEN
            \* seqs[0] of an empty list
            /\ Fail("IndexError")
            /\ UNCHANGED <<wfLib, si, seq>>
       ELSE IF seqs.nested THEN
            /\ wfLib' = EmptyDict
            /\ si' = 1
            /\ seq' = seqs.items[1]
            /\ pc' = "enter"
            /\ err' = err
       ELSE
            \* line 64 reads the local `seq`, which this branch never binds
            /\ Fail("UnboundLocalError")
            /\ UNCHANGED <<wfLib, si, seq>>
    /\ UNCHANGED <<callVars, libVars, trueDiv, entryPoint, seqs, linkLists, channels, logicalLLs,
                   defaultWfLib, bi, passTodo, passChan, ei, curFrame, result,
                   alignIn, alignOut>>

\* compile_sequence, lines 75-84
compile_sequence_enter ==
    /\ pc = "enter"
    /\ channels' = find_unique_channels(seq)
    /\ logicalLLs' = [c \in find_unique_channels(seq) |-> <<>>]
    /\ SetLib(InitLib(wfLib, find_unique_channels(seq)))
    /\ bi' = 1
    /\ pc' = "build"
    /\ UNCHANGED <<callVars, libVars, trueDiv, entryPoint, seqs, si, linkLists, seq, passTodo,
                   passChan, ei, curFrame, result, err, alignIn, alignOut>>

\* compile_sequence, lines 86-101: one block
build_block ==
    /\ pc = "build"
    /\ bi <= Len(seq)
    /\ logicalLLs' = BuildBlock(seq[bi], logicalLLs, wfLib, channels, trueDiv).LLs
    /\ SetLib(BuildBlock(seq[bi], logicalLLs, wfLib, channels, trueDiv).lib)
    /\ bi' = bi + 1
    /\ UNCHANGED <<callVars, libVars, trueDiv, entryPoint, seqs, si, linkLists, seq, channels,
                   passTodo, passChan, ei, curFrame, pc, result, err, alignIn,
                   alignOut>>

\* the block loop ends; line 104 starts the loop over logicalLLs.items()
pass_begin ==
    /\ pc = "build"
    /\ bi > Len(seq)
    /\ pc' = "pass"
    /\ passTodo' = DOMAIN logicalLLs
    /\ passChan' = None
    /\ ei' = 0
    /\ UNCHANGED <<callVars, libVars, trueDiv, entryPoint, seqs, si, linkLists, seq, channels,
                   logicalLLs, wfLib, defaultWfLib, bi, curFrame, result, err,
                   alignIn, alignOut>>

\* the entries of the channel being visited are exhausted
ChanFinished ==
    IF passChan = None THEN TRUE ELSE ei > Len(logicalLLs[passChan])

\* lines 104-105: the next channel, in the order the dict yields them
pass_next_chan ==
    /\ pc = "pass"
    /\ ChanFinished
    /\ \E c \in passTodo :
        /\ passChan' = c
        /\ passTodo' = passTodo \ {c}
    /\ curFrame' = 0
    /\ ei' = 1
    /\ UNCHANGED <<callVars, libVars, trueDiv, entryPoint, seqs, si, linkLists, seq, channels,
                   logicalLLs, wfLib, defaultWfLib, bi, pc, result, err,
                   alignIn, alignOut>>

\* lines 106-122: one entry
pass_entry ==
    /\ pc = "pass"
    /\ ~ChanFinished
    /\ LET r == PassEntry(logicalLLs[passChan][ei], wfLib[passChan], curFrame)
       IN  IF r.error # None THEN
                /\ Fail(r.error)
                /\ UNCHANGED <<logicalLLs, wfLib, defaultWfLib, curFrame, ei>>
           ELSE
                /\ logicalLLs' = [logicalLLs EXCEPT ![passChan][ei] = r.entry]
                /\ SetLib([wfLib EXCEPT ![passChan] = r.lib])
                /\ curFrame' = r.frame
                /\ ei' = ei + 1
                /\ UNCHANGED <<pc, err>>
    /\ UNCHANGED <<callVars, libVars, trueDiv, entryPoint, seqs, si, linkLists, seq, channels, bi,
                   passTodo, passChan, result, alignIn, alignOut>>

\* line 128: compile_sequence is about to return logicalLLs, wfLib
pass_end ==
    /\ pc = "pass"
    /\ ChanFinished
    /\ passTodo = {}
    /\ pc' = "ret"
    /\ UNCHANGED <<callVars, libVars, trueDiv, entryPoint, seqs, si, linkLists, seq, channels,
                   logicalLLs, wfLib, defaultWfLib, bi, passTodo, passChan, ei,
                   curFrame, result, err, alignIn, alignOut>>

\* compile_sequence returns to the caller
return_direct ==
    /\ pc = "ret"
    /\ entryPoint = "compile_sequence"
    /\ result' = [LLs |-> logicalLLs, wfLib |-> wfLib]
    /\ pc' = "done"
    /\ UNCHANGED <<callVars, libVars, trueDiv, entryPoint, seqs, si, linkLists, seq, channels,
                   logicalLLs, wfLib, defaultWfLib, bi, passTodo, passChan, ei,
                   curFrame, err, alignIn, alignOut>>

\* after a sequence of the program: the next one, or line 67
NextSequence ==
    IF si < Len(seqs.items)
    THEN /\ si' = si + 1
         /\ seq' = seqs.items[si + 1]
         /\ pc' = "enter"
    ELSE /\ pc' = "collected"
         /\ UNCHANGED <<si, seq>>

\* compile_sequences, line 58: the prototype sequence
collect_first ==
    /\ pc = "ret"
    /\ entryPoint = "compile_sequences"
    /\ si = 1
    /\ linkLists' = [c \in DOMAIN logicalLLs |-> <<logicalLLs[c]>>]
    /\ NextSequence
    /\ UNCHANGED <<callVars, libVars, trueDiv, entryPoint, seqs, channels, logicalLLs, wfLib,
                   defaultWfLib, bi, passTodo, passChan, ei, curFrame, result,
                   err, alignIn, alignOut>>

\* collect_next with the mini-LL put in front of the list instead of appended
collect_next_prepend ==
    /\ pc = "ret"
    /\ entryPoint = "compile_sequences"
    /\ si > 1
    /\ IF \E c \in DOMAIN linkLists : c \notin DOMAIN logicalLLs THEN
            \* miniLL[chan] of a channel the sequence does not use
            /\ Fail("KeyError")
            /\ UNCHANGED <<linkLists, si, seq>>
       ELSE
            /\ linkLists' = [c \in DOMAIN linkLists |->
                                <<logicalLLs[c]>> \o linkLists[c]]
            /\ NextSequence
            /\ err' = err
    /\ UNCHANGED <<callVars, libVars, trueDiv, entryPoint, seqs, channels, logicalLLs, wfLib,
                   defaultWfLib, bi, passTodo, passChan, ei, curFrame, result,
                   alignIn, alignOut>>

\* compile_sequences, lines 61-62: a later sequence
collect_next ==
    /\ pc = "ret"
    /\ entryPoint = "compile_sequences"
    /\ si > 1
    /\ IF \E c \in DOMAIN linkLists : c \notin DOMAIN logicalLLs THEN
            \* miniLL[chan] of a channel the sequence does not use
            /\ Fail("KeyError")
            /\ UNCHANGED <<linkLists, si, seq>>
       ELSE
            /\ linkLists' = [c \in DOMAIN linkLists |->
                                Append(linkLists[c], logicalLLs[c])]
            /\ NextSequence
            /\ err' = err
    /\ UNCHANGED <<callVars, libVars, trueDiv, entryPoint, seqs, channels, logicalLLs, wfLib,
                   defaultWfLib, bi, passTodo, passChan, ei, curFrame, result,
                   alignIn, alignOut>>

\* compile_sequences, line 67
compile_sequences_return ==
    /\ pc = "collected"
    /\ result' = [LLs |-> linkLists, wfLib |-> wfLib]
    /\ pc' = "done"
    /\ UNCHANGED <<callVars, libVars, trueDiv, entryPoint, seqs, si, linkLists, seq, channels,
                   logicalLLs, wfLib, defaultWfLib, bi, passTodo, passChan, ei,
                   curFrame, err, alignIn, alignOut>>

Next ==
    \/ call_compile_sequence
    \/ compile_sequences_start
    \/ compile_sequence_enter
    \/ build_block
    \/ pass_begin
    \/ pass_next_chan
    \/ pass_entry
    \/ pass_end
    \/ return_direct
    \/ collect_first
    \/ collect_next
    \/ compile_sequences_return

Spec == Init /\ [][Next]_vars

-----------------------------------------------------------------------------
(* align on its own *)

AlignPulses ==
    { Pulse(sh, ph, fc) : sh \in {Empty, K1, R2}, ph \in {0, 1}, fc \in {0, 1} }

\* the alignments a caller passes: the three policies and one other value
AlignmentValues == Alignments \cup {"middle"}

\* the calls align(pulse, blockLength, alignment) with blockLength at least
\* the sample count of the pulse
AlignInputs ==
    { [pulse |-> p, blockLength |-> Len(p.shape) + pad, alignment |-> a] :
        p \in AlignPulses, pad \in 0..(2 * cutoff + MaxExtraPad),
        a \in AlignmentValues }

InitAlign ==
    /\ trueDiv \in BOOLEAN
    /\ alignIn \in AlignInputs
    /\ alignOut = None
    /\ pc = "align"
    /\ entryPoint = "align"
    /\ seqs = NoProgram
    /\ seq = <<>>
    /\ si = 0
    /\ linkLists = EmptyDict
    /\ channels = {}
    /\ logicalLLs = EmptyDict
    /\ wfLib = EmptyDict
    /\ defaultWfLib = EmptyDict
    /\ bi = 0
    /\ passTodo = {}
    /\ passChan = None
    /\ ei = 0
    /\ curFrame = 0
    /\ result = None
    /\ err = None
    /\ NoLaterCalls
    /\ NoLibrary

\* the caller invokes align(pulse, blockLength, alignment)
call_align ==
    /\ pc = "align"
    /\ alignOut' = align(alignIn.pulse, alignIn.blockLength, alignIn.alignment, trueDiv)
    /\ pc' = "aligned"
    /\ UNCHANGED <<callVars, libVars, trueDiv, entryPoint, seqs, si, linkLists, seq, channels,
                   logicalLLs, wfLib, defaultWfLib, bi, passTodo, passChan, ei,
                   curFrame, result, err, alignIn>>

NextAlign == call_align

SpecAlign == InitAlign /\ [][NextAlign]_vars

-----------------------------------------------------------------------------
(* compile_sequence on sequences of constant pulses of one channel *)

\* blocks holding one constant pulse of 10 or of 5 samples on channel A
ConstBlocks ==
    { Block("A" :> Pulse(const(n, a), ph, 0), "left") :
        n \in {10, 5}, a \in {1, 2}, ph \in {0, 1} }

InitConst ==
    /\ trueDiv \in BOOLEAN
    /\ entryPoint = "compile_sequence"
    /\ seq \in SeqsUpTo(ConstBlocks, MaxBlocks)
    /\ seqs = NoProgram
    /\ si = 0
    /\ linkLists = EmptyDict
    /\ channels = {}
    /\ logicalLLs = EmptyDict
    /\ wfLib = EmptyDict
    /\ defaultWfLib = EmptyDict
    /\ bi = 0
    /\ passTodo = {}
    /\ passChan = None
    /\ ei = 0
    /\ curFrame = 0
    /\ pc = "start"
    /\ result = None
    /\ err = None
    /\ alignIn = None
    /\ alignOut = None
    /\ NoLaterCalls
    /\ NoLibrary

\* one call of compile_sequence
NextDirect ==
    \/ call_compile_sequence
    \/ compile_sequence_enter
    \/ build_block
    \/ pass_begin
    \/ pass_next_chan
    \/ pass_entry
    \/ pass_end
    \/ return_direct

SpecConst == InitConst /\ [][NextDirect]_vars

-----------------------------------------------------------------------------
(* two successive calls of compile_sequence, neither given a library *)

InitTwoCalls ==
    /\ trueDiv \in BOOLEAN
    /\ entryPoint = "compile_sequence"
    /\ seq \in ProgSeqs
    /\ pending \in { <<s>> : s \in ProgSeqs }
    /\ prevResult = None
    /\ seqs = NoProgram
    /\ si = 0
    /\ linkLists = EmptyDict
    /\ channels = {}
    /\ logicalLLs = EmptyDict
    /\ wfLib = EmptyDict
    /\ defaultWfLib = EmptyDict
    /\ bi = 0
    /\ passTodo = {}
    /\ passChan = None
    /\ ei = 0
    /\ curFrame = 0
    /\ pc = "start"
    /\ result = None
    /\ err = None
    /\ alignIn = None
    /\ alignOut = None
    /\ NoLibrary

\* the caller keeps what compile_sequence returned and makes the next call;
\* the library of that result is the object bound to the default of line 69
call_again ==
    /\ pc = "done"
    /\ entryPoint = "compile_sequence"
    /\ pending # <<>>
    /\ prevResult' = result
    /\ seq' = Head(pending)
    /\ pending' = Tail(pending)
    /\ result' = None
    /\ pc' = "start"
    /\ UNCHANGED <<libVars, trueDiv, entryPoint, seqs, si, linkLists, channels,
                   logicalLLs, wfLib, defaultWfLib, bi, passTodo, passChan, ei,
                   curFrame, err, alignIn, alignOut>>

NextTwoCalls ==
    \/ NextDirect
    \/ call_again

SpecTwoCalls == InitTwoCalls /\ [][NextTwoCalls]_vars

-----------------------------------------------------------------------------
(***************************************************************************)
(* ChannelLibrary (src/QGL/ChannelLibraries.py).  A ChannelDatabase row is *)
(* a record of its primary key, label, time and channels (label ->         *)
(* attribute value).  The session is the set of rows as the session sees   *)
(* them; commit makes the store equal to it, rollback makes it equal to    *)
(* the store.  session.new and session.dirty hold <<row id, what>> with    *)
(* what = "database" or a channel label; an object stays there until the   *)
(* next commit or rollback.  datetime.now() is strictly increasing.        *)
(***************************************************************************)

ChannelLabels == {"q1"}
SavedNames == {"a"}
AttributeValues == {0, 1}
KeywordArguments == {<<>>} \cup { <<v>> : v \in AttributeValues }

ChannelDatabase(id, label, time, chans) ==
    [id |-> id, label |-> label, time |-> time, channels |-> chans]

\* the row of a primary key
RowOf(rows, id) == CHOOSE r \in rows : r.id = id

\* update_channelDict, lines 128-130: the channels of self.channelDatabase
update_channelDict(rows, dbId) ==
    [l \in DOMAIN RowOf(rows, dbId).channels |-> dbId]

\* bbndb.deepcopy_sqla_object: a copy with a primary key of its own
deepcopy_sqla_object(obj, id) == [obj EXCEPT !.id = id]

\* check_session_dirty looking at session.new only
check_session_dirty_newOnly(force) ==
    (sessionNew = {}) \/ force

\* check_session_dirty, lines 63-69: the wrapped function is called
check_session_dirty(force) ==
    (sessionNew \cup sessionDirty = {}) \/ force

RECURSIVE order_by_time_desc(_)
\* line 175: the rows ordered by time, latest first
order_by_time_desc(rows) ==
    IF rows = {} THEN <<>>
    ELSE LET r == CHOOSE r \in rows : \A q \in rows : q.time <= r.time
         IN  <<r>> \o order_by_time_desc(rows \ {r})

\* what the last call left for the caller
Returned(op, e, r) ==
    /\ call' = op
    /\ err' = e
    /\ result' = r

\* the call raised before it changed anything
Raised(op, e) ==
    /\ Returned(op, e, None)
    /\ UNCHANGED <<store, session, sessionNew, sessionDirty, channelDatabase,
                   channelDict, clock, nextId>>

InitLibrary ==
    /\ NoLibrary
    /\ pc = "new"
    /\ entryPoint = "ChannelLibrary"
    /\ trueDiv = TRUE
    /\ seqs = NoProgram
    /\ seq = <<>>
    /\ si = 0
    /\ linkLists = EmptyDict
    /\ channels = {}
    /\ logicalLLs = EmptyDict
    /\ wfLib = EmptyDict
    /\ defaultWfLib = EmptyDict
    /\ bi = 0
    /\ passTodo = {}
    /\ passChan = None
    /\ ei = 0
    /\ curFrame = 0
    /\ result = None
    /\ err = None
    /\ alignIn = None
    /\ alignOut = None
    /\ NoLaterCalls

\* ChannelLibrary(), lines 88-113, on the store as it is: a new session
ChannelLibrary_init ==
    /\ pc \in {"new", "idle"}
    /\ LET working_dbs == {r \in store : r.label = "working"}
       IN  IF Cardinality(working_dbs) > 1 THEN
                /\ Returned("ChannelLibrary", "More than one working database exists!", None)
                /\ pc' = "error"
                /\ session' = store
                /\ UNCHANGED <<store, channelDatabase, channelDict, clock, nextId>>
           ELSE IF Cardinality(working_dbs) = 1 THEN
                /\ Returned("ChannelLibrary", None, None)
                /\ pc' = "idle"
                /\ session' = store
                /\ channelDatabase' = (CHOOSE r \in working_dbs : TRUE).id
                /\ channelDict' = update_channelDict(store, channelDatabase')
                /\ UNCHANGED <<store, clock, nextId>>
           ELSE
                /\ nextId <= MaxDbId
                /\ Returned("ChannelLibrary", None, None)
                /\ pc' = "idle"
                /\ store' = store \cup {ChannelDatabase(nextId, "working", clock + 1, <<>>)}
                /\ session' = store'
                /\ channelDatabase' = nextId
                /\ channelDict' = <<>>
                /\ clock' = clock + 1
                /\ nextId' = nextId + 1
    /\ sessionNew' = {}
    /\ sessionDirty' = {}
    /\ UNCHANGED <<compilerVars, callVars, objects>>

\* clear(channel_db), lines 183-194, with create_new left at True;
\* channel_db = 0 stands for no argument
clear(channel_db) ==
    /\ pc = "idle"
    /\ nextId <= MaxDbId
    /\ LET target == IF channel_db = 0 THEN channelDatabase ELSE channel_db
           kept == session \ {RowOf(session, target)}
       IN  /\ store' = kept \cup {ChannelDatabase(nextId, "working", clock + 1, <<>>)}
           /\ session' = store'
    /\ channelDatabase' = nextId
    /\ channelDict' = <<>>
    /\ clock' = clock + 1
    /\ nextId' = nextId + 1
    /\ sessionNew' = {}
    /\ sessionDirty' = {}
    /\ Returned("clear", None, None)
    /\ UNCHANGED <<pc, compilerVars, callVars, objects>>

\* load_obj, lines 209-214: clear(create_new=False) deletes the working row
\* and commits, then a copy of obj becomes the working row
load_obj(op, obj) ==
    /\ nextId <= MaxDbId
    /\ LET kept == session \ {RowOf(session, channelDatabase)}
           copy == [deepcopy_sqla_object(obj, nextId) EXCEPT !.label = "working"]
       IN  /\ store' = kept \cup {copy}
           /\ session' = store'
           /\ channelDict' = update_channelDict(store', nextId)
    /\ channelDatabase' = nextId
    /\ nextId' = nextId + 1
    /\ sessionNew' = {}
    /\ sessionDirty' = {}
    /\ clock' = clock
    /\ Returned(op, None, None)

\* load(name, index, force=...), lines 171-176, for the name of saved rows
load(name, index, force) ==
    /\ pc = "idle"
    /\ IF ~check_session_dirty(force) THEN
            Raised("load", "Uncommitted transactions")
       ELSE LET items == order_by_time_desc({r \in session : r.label = name})
            IN  IF index > Len(items) THEN
                    Raised("load", "IndexError")
                ELSE
                    \* items[-index]
                    load_obj("load", items[Len(items) - index + 1])
    /\ UNCHANGED <<pc, compilerVars, callVars, objects>>

\* load_by_id(id_num, force=...), lines 178-181, for the id of a row other
\* than self.channelDatabase
load_by_id(id_num, force) ==
    /\ pc = "idle"
    /\ id_num # channelDatabase
    /\ IF ~check_session_dirty(force) THEN
            Raised("load_by_id", "Uncommitted transactions")
       ELSE load_obj("load_by_id", RowOf(session, id_num))
    /\ UNCHANGED <<pc, compilerVars, callVars, objects>>

\* commit(), lines 216-218
commit ==
    /\ pc = "idle"
    /\ store' = session
    /\ sessionNew' = {}
    /\ sessionDirty' = {}
    /\ channelDict' = update_channelDict(session, channelDatabase)
    /\ Returned("commit", None, None)
    /\ UNCHANGED <<pc, session, channelDatabase, clock, nextId, compilerVars,
                   callVars, objects>>

\* revert(), lines 220-221
revert ==
    /\ pc = "idle"
    /\ session' = store
    /\ sessionNew' = {}
    /\ sessionDirty' = {}
    /\ Returned("revert", None, None)
    /\ UNCHANGED <<pc, store, channelDatabase, channelDict, clock, nextId,
                   compilerVars, callVars, objects>>

\* save_as(name, force=...), lines 223-231
save_as(name, force) ==
    /\ pc = "idle"
    /\ IF ~check_session_dirty(force) THEN
            Raised("save_as", "Uncommitted transactions")
       ELSE IF name = "working" THEN
            Raised("save_as", "ValueError")
       ELSE
            /\ nextId <= MaxDbId
            /\ LET new_channelDatabase ==
                    [deepcopy_sqla_object(RowOf(session, channelDatabase), nextId)
                        EXCEPT !.label = name, !.time = clock + 1]
               IN  /\ store' = session \cup {new_channelDatabase}
                   /\ session' = store'
            /\ channelDict' = update_channelDict(session, channelDatabase)
            /\ sessionNew' = {}
            /\ sessionDirty' = {}
            /\ clock' = clock + 1
            /\ nextId' = nextId + 1
            /\ Returned("save_as", None, None)
            /\ UNCHANGED channelDatabase
    /\ UNCHANGED <<pc, compilerVars, callVars, objects>>

\* check_for_duplicates, lines 77-83: the label is in channelDict, so the
\* item found there gets the keyword arguments and is returned.  An item is
\* [owner, label, serial]: the row it belongs to and its label identify an
\* item of a row (serial 0); an item of no row (owner 0) is identified by
\* its number among the items constructed.  kwargs is <<>> or <<value>>.
check_for_duplicates(op, label, kwargs) ==
    /\ label \in DOMAIN channelDict
    /\ session' =
        IF kwargs = <<>> THEN session
        ELSE { IF r.id = channelDict[label] /\ label \in DOMAIN r.channels
               THEN [r EXCEPT !.channels[label] = kwargs[1]]
               ELSE r : r \in session }
    /\ Returned(op, None,
                [owner |-> channelDict[label], label |-> label, serial |-> 0])
    /\ UNCHANGED <<sessionNew, channelDict>>

\* new_qubit(label, **kwargs), lines 374-378 under check_for_duplicates
new_qubit(label, kwargs) ==
    /\ pc = "idle"
    /\ IF label \in DOMAIN channelDict THEN
            check_for_duplicates("new_qubit", label, kwargs)
       ELSE
            /\ session' = (session \ {RowOf(session, channelDatabase)}) \cup
                    {[RowOf(session, channelDatabase) EXCEPT
                        !.channels = (label :> (IF kwargs = <<>> THEN 0 ELSE kwargs[1])) @@ @]}
            /\ sessionNew' = sessionNew \cup {<<channelDatabase, label>>}
            /\ channelDict' = update_channelDict(session', channelDatabase)
            /\ Returned("new_qubit", None,
                        [owner |-> channelDatabase, label |-> label, serial |-> 0])
    /\ UNCHANGED <<pc, store, sessionDirty, channelDatabase, clock, nextId,
                   compilerVars, callVars, objects>>

\* new_TDM(label, address, **kwargs), lines 298-300 under check_for_duplicates:
\* the Processor is returned without channel_db and without
\* add_and_update_dict
new_TDM(label, kwargs) ==
    /\ pc = "idle"
    /\ IF label \in DOMAIN channelDict THEN
            /\ check_for_duplicates("new_TDM", label, kwargs)
            /\ UNCHANGED objects
       ELSE
            /\ objects < MaxObjects
            /\ objects' = objects + 1
            /\ Returned("new_TDM", None,
                        [owner |-> 0, label |-> label, serial |-> objects + 1])
            /\ UNCHANGED <<session, sessionNew, channelDict>>
    /\ UNCHANGED <<pc, store, sessionDirty, channelDatabase, clock, nextId,
                   compilerVars, callVars>>

\* the caller assigns an attribute of the channel cl[label], lines 241-242,
\* while the channel is in the session
set_attribute(label, value) ==
    /\ pc = "idle"
    /\ label \in DOMAIN channelDict
    /\ \E r \in session :
        /\ r.id = channelDict[label]
        /\ label \in DOMAIN r.channels
        /\ r.channels[label] # value
        /\ session' = (session \ {r}) \cup {[r EXCEPT !.channels[label] = value]}
        /\ sessionDirty' = IF <<r.id, label>> \in sessionNew
                           THEN sessionDirty
                           ELSE sessionDirty \cup {<<r.id, label>>}
    /\ Returned("set_attribute", None, None)
    /\ UNCHANGED <<pc, store, sessionNew, channelDatabase, channelDict, clock,
                   nextId, compilerVars, callVars, objects>>

\* lines 527-533 and 537-543: the channels of the working row with the label
Factory(op, label) ==
    /\ pc = "idle"
    /\ channelDict' = update_channelDict(session, channelDatabase)
    /\ LET cs == {l \in DOMAIN RowOf(session, channelDatabase).channels : l = label}
       IN  IF Cardinality(cs) = 1
           THEN Returned(op, None, <<channelDatabase, label>>)
           ELSE Returned(op, "Expected to find a single channel", None)
    /\ UNCHANGED <<pc, store, session, sessionNew, sessionDirty, channelDatabase,
                   clock, nextId, compilerVars, callVars, objects>>

\* MeasFactory(label), lines 525-533
MeasFactory(label) == Factory("MeasFactory", label)

\* MarkerFactory(label), lines 535-543
MarkerFactory(label) == Factory("MarkerFactory", label)

NextLibrary ==
    \/ ChannelLibrary_init
    \/ \E d \in {0} \cup {r.id : r \in session} : clear(d)
    \/ \E name \in SavedNames, index \in {1, 2}, force \in BOOLEAN :
            load(name, index, force)
    \/ \E r \in session, force \in BOOLEAN : load_by_id(r.id, force)
    \/ commit
    \/ revert
    \/ \E name \in SavedNames \cup {"working"}, force \in BOOLEAN :
            save_as(name, force)
    \/ \E label \in ChannelLabels, kwargs \in KeywordArguments :
            new_qubit(label, kwargs)
    \/ \E label \in ChannelLabels, kwargs \in KeywordArguments :
            new_TDM(label, kwargs)
    \/ \E label \in ChannelLabels, value \in AttributeValues :
            set_attribute(label, value)
    \/ \E label \in ChannelLabels : MeasFactory(label)
    \/ \E label \in ChannelLabels : MarkerFactory(label)

SpecLibrary == InitLibrary /\ [][NextLibrary]_vars

-----------------------------------------------------------------------------
(* Properties *)

RECURSIVE SumMaxPts(_)
\* the sum of maxPts over the blocks of a sequence with maxPts > 0
SumMaxPts(s) ==
    IF s = <<>> THEN 0
    ELSE (IF s[1].maxPts > 0 THEN s[1].maxPts ELSE 0) + SumMaxPts(Tail(s))

\* C1: when compile_sequence returns, the lengths of the entries of every
\* channel's mini-LL sum to the sum of maxPts over the sequence's blocks with
\* maxPts > 0, the same for every channel.
C1_Synchronization ==
    pc = "ret" =>
        \A c \in channels : SumLength(logicalLLs[c]) = SumMaxPts(seq)

\* C2: the lengths of the entries align returns sum to blockLength: one entry
\* when nothing is padded or the gap is merged, a signal entry and one or two
\* padding entries otherwise, and then the returned shape is the pulse's own.
C2_AlignSumsToBlockLength ==
    pc = "aligned" =>
        /\ SumLength(alignOut.entries) = alignIn.blockLength
        /\ Len(alignOut.entries) \in 1..3
        /\ Len(alignOut.entries) > 1 => alignOut.wf = alignIn.pulse.shape

\* C3: compile_sequences accepts a flat list of blocks and a list of
\* sequences: the flat list does not end in an error and gives every channel
\* a list of one mini-LL, the list of sequences one mini-LL per sequence.
C3_BothInputShapes ==
    (entryPoint = "compile_sequences" /\ seqs.items # <<>>) =>
        /\ ~seqs.nested => pc # "error"
        /\ pc = "done" =>
            \A c \in DOMAIN result.LLs :
                Len(result.LLs[c]) = IF seqs.nested THEN Len(seqs.items) ELSE 1

\* some sequence after the first uses a channel set other than the first's
ChannelSetMismatch(items) ==
    \E i \in 2..Len(items) :
        find_unique_channels(items[i]) # find_unique_channels(items[1])

\* C4: a program in which a later sequence uses a channel set different from
\* the first sequence's never returns link lists and a library.
C4_MismatchRejected ==
    (entryPoint = "compile_sequences" /\ seqs.nested /\ ChannelSetMismatch(seqs.items)) =>
        (pc # "done" /\ result = None)

RECURSIVE SumFrameChange(_, _)
\* the sum of frameChange over the first n entries of a mini-LL
SumFrameChange(ll, n) ==
    IF n = 0 THEN 0 ELSE SumFrameChange(ll, n - 1) + ll[n].frameChange

\* every sample of the shape is the same number
IsConstant(shape) ==
    \A i, j \in 1..Len(shape) : Value(shape[i]) = Value(shape[j])

\* the shape the phase/frame pass rotates: one sample of a constant shape
Collapsed(shape) == IF IsConstant(shape) THEN <<shape[1]>> ELSE shape

\* C5: the pass rotates the waveform of the k-th entry of a channel by the
\* entry's phase plus the sum of frameChange over the entries before it on
\* that channel in this sequence, its own frameChange excluded.
C5_FrameAccumulation ==
    [][ (pc = "pass" /\ passChan # None /\ passChan' = passChan /\ ei' = ei + 1) =>
            LET e == logicalLLs[passChan][ei]
                theta == e.phase + SumFrameChange(logicalLLs[passChan], ei - 1)
            IN  logicalLLs'[passChan][ei].key =
                    hash_pulse(RotateShape(Collapsed(wfLib[passChan][e.key]), theta))
      ]_vars

\* the third entry of a channel has been rotated by its phase plus the two
\* frame changes before it
C5_Witness ==
    /\ pc = "pass"
    /\ passChan # None
    /\ ei = 4
    /\ logicalLLs[passChan][1].frameChange = 1
    /\ logicalLLs[passChan][2].frameChange = 1
    /\ logicalLLs[passChan][3].frameChange = 1
    /\ logicalLLs[passChan][3].key = <<(<<1, logicalLLs[passChan][3].phase + 2>>)>>

-----------------------------------------------------------------------------
\* the sequences a finished call compiled, each with the mini-LLs returned
\* for it
Units ==
    IF pc # "done" THEN {}
    ELSE IF entryPoint = "compile_sequence" THEN {[s |-> seq, LLs |-> result.LLs]}
    ELSE { [s |-> seqs.items[i],
            LLs |-> [c \in DOMAIN result.LLs |-> result.LLs[c][i]]] :
                i \in 1..Len(seqs.items) }

\* the pulses of a unit that were compiled: channel and block index
Sites(u) ==
    { x \in (DOMAIN u.LLs) \X (1..Len(u.s)) :
        u.s[x[2]].maxPts > 0 /\ x[1] \in DOMAIN u.s[x[2]].pulses }

SitePulse(u, x) == u.s[x[2]].pulses[x[1]]

\* the position, in the channel's mini-LL, of the entry made for the pulse:
\* the entries of the earlier blocks, then the one entry of this block that
\* is not padding
SitePos(u, x) ==
    LET chs == find_unique_channels(u.s)
        before == BuildFrom(SubSeq(u.s, 1, x[2] - 1), 1, [c \in chs |-> <<>>],
                            InitLib(EmptyDict, chs), chs, trueDiv).LLs[x[1]]
        own == BlockEntries(u.s[x[2]], x[1], trueDiv)
    IN  Len(before) + (CHOOSE i \in 1..Len(own) : ~own[i].isTimeAmp)

SiteKey(u, x) == u.LLs[x[1]][SitePos(u, x)].key

\* the shape align stored for the pulse
SiteShape(u, x) ==
    align(SitePulse(u, x), u.s[x[2]].maxPts, u.s[x[2]].alignment, trueDiv).wf

\* the rotation the pass applied to it
SiteRotation(u, x) ==
    SitePulse(u, x).phase + SumFrameChange(u.LLs[x[1]], SitePos(u, x) - 1)

-----------------------------------------------------------------------------
\* the sequence without its b-th block
RemoveAt(s, b) == SubSeq(s, 1, b - 1) \o SubSeq(s, b + 1, Len(s))

RECURSIVE EntryCount(_, _, _)
\* the number of entries the blocks with maxPts > 0 give a channel
EntryCount(s, c, td) ==
    IF s = <<>> THEN 0
    ELSE (IF s[1].maxPts > 0 THEN Len(BlockEntries(s[1], c, td)) ELSE 0)
            + EntryCount(Tail(s), c, td)

\* C7: a block with maxPts = 0 adds no entry to any channel's mini-LL, and
\* the mini-LLs compile_sequence returns are those of the sequence without
\* that block, for every channel another block uses.
C7_ZeroBlockElision ==
    pc = "ret" =>
        /\ \A c \in channels : Len(logicalLLs[c]) = EntryCount(seq, c, trueDiv)
        /\ \A b \in 1..Len(seq) :
            seq[b].maxPts = 0 =>
                \A c \in find_unique_channels(RemoveAt(seq, b)) :
                    logicalLLs[c] =
                        compile_sequence(RemoveAt(seq, b), EmptyDict, trueDiv).LLs[c]

\* a sequence with a zero block between two blocks that emit entries
C7_Witness ==
    /\ pc = "ret"
    /\ Len(seq) = 3
    /\ seq[2].maxPts = 0
    /\ seq[1].maxPts > 0
    /\ seq[3].maxPts > 0
    /\ \A c \in channels : Len(logicalLLs[c]) >= 2

-----------------------------------------------------------------------------
RECURSIVE ThreadedLib(_, _, _)
\* the library after the first i sequences of a program
ThreadedLib(items, i, td) ==
    IF i = 0 THEN EmptyDict
    ELSE compile_sequence(items[i], ThreadedLib(items, i - 1, td), td).wfLib

\* C8: for a program of n sequences over one channel set compile_sequences
\* returns, for every channel, n mini-LLs, the i-th being the one
\* compile_sequence makes of the i-th sequence, and the one library that was
\* handed from each compilation to the next.
C8_ProgramShapeAndOrder ==
    (pc = "done" /\ entryPoint = "compile_sequences"
        /\ ~ChannelSetMismatch(seqs.items)) =>
        /\ DOMAIN result.LLs = find_unique_channels(seqs.items[1])
        /\ \A c \in DOMAIN result.LLs :
            /\ Len(result.LLs[c]) = Len(seqs.items)
            /\ \A i \in 1..Len(seqs.items) :
                result.LLs[c][i] =
                    compile_sequence(seqs.items[i],
                                     ThreadedLib(seqs.items, i - 1, trueDiv),
                                     trueDiv).LLs[c]
        /\ result.wfLib = ThreadedLib(seqs.items, Len(seqs.items), trueDiv)

\* a program of two sequences over one channel set with different mini-LLs
C8_Witness ==
    /\ pc = "done"
    /\ entryPoint = "compile_sequences"
    /\ Len(seqs.items) = 2
    /\ ~ChannelSetMismatch(seqs.items)
    /\ \E c \in DOMAIN result.LLs :
        /\ Len(result.LLs[c]) = 2
        /\ result.LLs[c][1] # result.LLs[c][2]

-----------------------------------------------------------------------------
\* C9: in what compile_sequence returns, the key of every entry with
\* isTimeAmp set is in its channel's library and names a waveform whose
\* samples are all the same.
C9_TimeAmplitude ==
    pc = "ret" =>
        \A c \in DOMAIN logicalLLs : \A i \in 1..Len(logicalLLs[c]) :
            logicalLLs[c][i].isTimeAmp =>
                /\ logicalLLs[c][i].key \in DOMAIN wfLib[c]
                /\ IsConstant(wfLib[c][logicalLLs[c][i].key])

\* a channel returns a padding entry, a collapsed signal entry and a signal
\* entry that is not constant
C9_Witness ==
    /\ pc = "ret"
    /\ \E c \in DOMAIN logicalLLs :
        /\ \E i \in 1..Len(logicalLLs[c]) :
            logicalLLs[c][i].isTimeAmp /\ logicalLLs[c][i].key = TAZKey
        /\ \E i \in 1..Len(logicalLLs[c]) :
            logicalLLs[c][i].isTimeAmp /\ logicalLLs[c][i].key # TAZKey
                /\ logicalLLs[c][i].length > 1
        /\ \E i \in 1..Len(logicalLLs[c]) : ~logicalLLs[c][i].isTimeAmp

-----------------------------------------------------------------------------
Keys(ll) == [i \in 1..Len(ll) |-> ll[i].key]

NoFrameChange ==
    \A c \in DOMAIN logicalLLs : \A i \in 1..Len(logicalLLs[c]) :
        logicalLLs[c][i].frameChange = 0

\* C10 as stated: with every frameChange zero, a second run of the pass over
\* the mini-LLs compile_sequence returns changes no key, whatever the phases.
C10_RepassKeepsKeys ==
    (pc = "ret" /\ NoFrameChange) =>
        \A c \in DOMAIN logicalLLs :
            LET again == PassChannel(logicalLLs[c], wfLib[c])
            IN  again.error = None /\ Keys(again.ll) = Keys(logicalLLs[c])

\* C10 amended: with every frameChange zero, a second run of the pass
\* completes and does not change the key of any entry whose phase is zero.
C10_RepassIdempotent ==
    (pc = "ret" /\ NoFrameChange) =>
        \A c \in DOMAIN logicalLLs :
            LET again == PassChannel(logicalLLs[c], wfLib[c])
            IN  /\ again.error = None
                /\ \A i \in 1..Len(logicalLLs[c]) :
                    logicalLLs[c][i].phase = 0 =>
                        again.ll[i].key = logicalLLs[c][i].key

\* a returned mini-LL without frame change holding a collapsed signal entry
\* of phase zero, which a second run leaves alone
C10_Witness ==
    /\ pc = "ret"
    /\ NoFrameChange
    /\ \E c \in DOMAIN logicalLLs : \E i \in 1..Len(logicalLLs[c]) :
        /\ logicalLLs[c][i].phase = 0
        /\ logicalLLs[c][i].key # TAZKey
        /\ logicalLLs[c][i].length > 1
        /\ logicalLLs[c][i].isTimeAmp
        /\ PassChannel(logicalLLs[c], wfLib[c]).ll[i].key = logicalLLs[c][i].key

\* a non-empty sequence of blocks that each hold one constant pulse on A
SingleConstantA(s) ==
    /\ Len(s) > 0
    /\ \A i \in 1..Len(s) :
        /\ DOMAIN s[i].pulses = {"A"}
        /\ Len(s[i].pulses["A"].shape) > 0
        /\ IsConstant(s[i].pulses["A"].shape)

\* the constant values of the pulses of such a sequence
ConstantValues(s) == { Value(s[i].pulses["A"].shape[1]) : i \in 1..Len(s) }

\* the mini-LL of A has one time-amplitude entry per block, as long as the pulse
OneEntryPerBlock ==
    /\ Len(logicalLLs["A"]) = Len(seq)
    /\ \A i \in 1..Len(seq) :
        /\ logicalLLs["A"][i].length = Len(seq[i].pulses["A"].shape)
        /\ logicalLLs["A"][i].isTimeAmp

\* C11: a sequence of single constant pulses on A compiles to one
\* time-amplitude entry per block, of the pulse's length, and to a library
\* for A of at most 1 + (number of distinct constant values) entries.
C11_LibrarySize ==
    (pc = "ret" /\ SingleConstantA(seq)) =>
        /\ OneEntryPerBlock
        /\ Cardinality(DOMAIN wfLib["A"]) <= 1 + Cardinality(ConstantValues(seq))

\* C11 amended: such a sequence, compiled into an empty library, gives one
\* time-amplitude entry per block, of the pulse's length, and a library for
\* A of at most 1 + 2 * (number of blocks) entries: the reserved zero entry
\* and, per block, the array the builder stored and the one-sample array
\* the pass stored.
C11_LibraryGrowth ==
    (pc = "ret" /\ SingleConstantA(seq)) =>
        /\ OneEntryPerBlock
        /\ Cardinality(DOMAIN wfLib["A"]) <= 1 + 2 * Len(seq)

\* the spec's case compiled: 10 samples of one value, then 5 of another,
\* and five entries in the library of A
C11_Witness ==
    /\ pc = "ret"
    /\ Len(seq) = 2
    /\ SingleConstantA(seq)
    /\ Len(seq[1].pulses["A"].shape) = 10
    /\ Len(seq[2].pulses["A"].shape) = 5
    /\ Cardinality(ConstantValues(seq)) = 2
    /\ Keys(logicalLLs["A"]) = <<hash_pulse(const(1, 1)), hash_pulse(const(1, 2))>>
    /\ Cardinality(DOMAIN wfLib["A"]) = 5

\* the second of two calls has returned
SecondCallDone ==
    /\ entryPoint = "compile_sequence"
    /\ pc = "done"
    /\ pending = <<>>

\* C12: of two successive calls compile_sequence(seqA), compile_sequence(seqB)
\* without a library, the second returns a library holding only channels and
\* waveforms that arise from seqB, and the library the first call returned
\* still has the contents it was returned with.
C12_NoSharedState ==
    SecondCallDone =>
        LET own == compile_sequence(seq, EmptyDict, trueDiv).wfLib
        IN  /\ \A c \in DOMAIN result.wfLib :
                /\ c \in DOMAIN own
                /\ DOMAIN result.wfLib[c] \subseteq DOMAIN own[c]
            /\ defaultWfLib = prevResult.wfLib

\* C13: a call of align with an alignment other than left, right, center for
\* a pulse shorter than the block does not return entries: it ends in an
\* error.
C13_InvalidAlignmentFatal ==
    (/\ entryPoint = "align"
     /\ alignIn.alignment \notin Alignments
     /\ alignIn.blockLength > Len(alignIn.pulse.shape)) =>
        pc # "aligned"

\* the row of `rows` with exactly k - 1 rows of a later time
KthMostRecent(rows, k) ==
    CHOOSE r \in rows : Cardinality({q \in rows : q.time > r.time}) = k - 1

\* C14: load(name, index) that completes makes the working database a copy
\* of the index-th most recent row labelled name: index = 1 the most recent,
\* index = 2 the second most recent.
C14_LoadByRecency ==
    [][\A name \in SavedNames, index \in {1, 2}, force \in BOOLEAN :
        (load(name, index, force) /\ err' = None) =>
            LET chosen == KthMostRecent({r \in session : r.label = name}, index)
                working == RowOf(session', channelDatabase')
            IN  /\ working.time = chosen.time
                /\ working.channels = chosen.channels]_vars

\* C15: MeasFactory(label) and MarkerFactory(label) do not end in an error:
\* they return the channel of that label of the working database, which
\* holds it afterwards, created when it was absent.
C15_FactoryReturnsOrCreates ==
    [][\A label \in ChannelLabels :
        (MeasFactory(label) \/ MarkerFactory(label)) =>
            /\ err' = None
            /\ result' = <<channelDatabase, label>>
            /\ label \in DOMAIN RowOf(session', channelDatabase).channels]_vars

\* a padding entry of n samples: the reserved key, time-amplitude
IsPadEntry(e, n) == e.key = TAZKey /\ e.isTimeAmp /\ e.length = n

\* C16: for a valid policy and padLength > 0, align returns one merged entry
\* iff (left or right and padLength < cutoff) or (center and padLength <
\* 2*cutoff), the zeros after the signal for left, before it for right,
\* floor(padLength/2) before and ceil(padLength/2) after for center;
\* otherwise [signal, pad], [pad, signal] or [pad of floor, signal, pad of
\* ceil], the pads on the reserved key and the signal keyed by the hash of
\* the unpadded shape.
C16_AlignCases ==
    (/\ pc = "aligned"
     /\ alignIn.alignment \in Alignments
     /\ alignIn.blockLength > Len(alignIn.pulse.shape)) =>
        LET shape == alignIn.pulse.shape
            a == alignIn.alignment
            padLength == alignIn.blockLength - Len(shape)
            before == padLength \div 2
            after == padLength - before
            merged == \/ a \in {"left", "right"} /\ padLength < cutoff
                      \/ a = "center" /\ padLength < 2 * cutoff
            es == alignOut.entries
        IN  /\ (Len(es) = 1) <=> merged
            /\ merged =>
                alignOut.wf = CASE a = "left" -> shape \o zeros(padLength)
                                [] a = "right" -> zeros(padLength) \o shape
                                [] a = "center" -> zeros(before) \o shape \o zeros(after)
            /\ (~merged /\ a = "left") =>
                /\ Len(es) = 2
                /\ es[1].key = hash_pulse(shape)
                /\ IsPadEntry(es[2], padLength)
            /\ (~merged /\ a = "right") =>
                /\ Len(es) = 2
                /\ IsPadEntry(es[1], padLength)
                /\ es[2].key = hash_pulse(shape)
            /\ (~merged /\ a = "center") =>
                /\ Len(es) = 3
                /\ IsPadEntry(es[1], before)
                /\ es[2].key = hash_pulse(shape)
                /\ IsPadEntry(es[3], after)

\* two entries that differ at most in key and isTimeAmp
SameButKeyAndFlag(e, f) ==
    [e EXCEPT !.key = <<>>, !.isTimeAmp = FALSE]
        = [f EXCEPT !.key = <<>>, !.isTimeAmp = FALSE]

\* C17: a step of the phase/frame pass keeps the channels, the number and
\* order of their entries and every field of an entry other than key and
\* isTimeAmp, and keeps every key of every channel's library.
C17_PassFrameCondition ==
    [][pc = "pass" =>
        /\ DOMAIN logicalLLs' = DOMAIN logicalLLs
        /\ \A c \in DOMAIN logicalLLs :
            /\ Len(logicalLLs'[c]) = Len(logicalLLs[c])
            /\ \A i \in 1..Len(logicalLLs[c]) :
                SameButKeyAndFlag(logicalLLs[c][i], logicalLLs'[c][i])
        /\ \A c \in DOMAIN wfLib :
            /\ c \in DOMAIN wfLib'
            /\ DOMAIN wfLib[c] \subseteq DOMAIN wfLib'[c]]_vars

\* the pass has rewritten the first of several entries of A: the entry keeps
\* its phase 1, is time-amplitude and refers to the rotated sample, which
\* the library now holds
C17_Witness ==
    /\ pc = "pass"
    /\ passChan = "A"
    /\ ei = 2
    /\ Len(logicalLLs["A"]) >= 2
    /\ logicalLLs["A"][1].phase = 1
    /\ logicalLLs["A"][1].frameChange = 1
    /\ logicalLLs["A"][1].isTimeAmp
    /\ logicalLLs["A"][1].key = hash_pulse(RotateShape(K1, 1))
    /\ logicalLLs["A"][1].key \in DOMAIN wfLib["A"]

\* every entry of the mini-LL refers to an entry of the library
KeysIn(ll, chanLib) == \A i \in 1..Len(ll) : ll[i].key \in DOMAIN chanLib

\* the library holds a single zero sample under the reserved key
HasTAZ(chanLib) ==
    /\ TAZKey \in DOMAIN chanLib
    /\ Len(chanLib[TAZKey]) = 1
    /\ Value(chanLib[TAZKey][1]) = ZeroSample

\* C18: the entry the pass is about to look up, and every entry of what
\* compile_sequence and compile_sequences return, has a key of its channel's
\* library; the library of every channel in use holds a single zero sample
\* under TAZKey.
C18_ReferentialIntegrity ==
    /\ (pc = "pass" /\ passChan # None /\ ei <= Len(logicalLLs[passChan])) =>
            logicalLLs[passChan][ei].key \in DOMAIN wfLib[passChan]
    /\ pc \in {"build", "pass", "ret"} =>
            \A c \in channels : c \in DOMAIN wfLib /\ HasTAZ(wfLib[c])
    /\ pc = "ret" =>
            \A c \in DOMAIN logicalLLs : KeysIn(logicalLLs[c], wfLib[c])
    /\ (pc = "done" /\ entryPoint = "compile_sequence") =>
            \A c \in DOMAIN result.LLs :
                /\ c \in DOMAIN result.wfLib
                /\ HasTAZ(result.wfLib[c])
                /\ KeysIn(result.LLs[c], result.wfLib[c])
    /\ (pc = "done" /\ entryPoint = "compile_sequences") =>
            \A c \in DOMAIN result.LLs :
                /\ c \in DOMAIN result.wfLib
                /\ HasTAZ(result.wfLib[c])
                /\ \A j \in 1..Len(result.LLs[c]) :
                    KeysIn(result.LLs[c][j], result.wfLib[c])

\* compile_sequences has returned two mini-LLs for A whose first entries
\* have different keys, both in the library of A, neither the reserved one
C18_Witness ==
    /\ pc = "done"
    /\ entryPoint = "compile_sequences"
    /\ "A" \in DOMAIN result.LLs
    /\ Len(result.LLs["A"]) = 2
    /\ Len(result.LLs["A"][1]) >= 1
    /\ Len(result.LLs["A"][2]) >= 1
    /\ result.LLs["A"][1][1].key # result.LLs["A"][2][1].key
    /\ result.LLs["A"][1][1].key # TAZKey
    /\ result.LLs["A"][2][1].key # TAZKey
    /\ result.LLs["A"][1][1].key \in DOMAIN result.wfLib["A"]
    /\ result.LLs["A"][2][1].key \in DOMAIN result.wfLib["A"]

\* a call of load, load_by_id or save_as with the given force
GuardedCall(force) ==
    \/ \E name \in SavedNames, index \in {1, 2} : load(name, index, force)
    \/ \E r \in session : load_by_id(r.id, force)
    \/ \E name \in SavedNames \cup {"working"} : save_as(name, force)

\* C19: with new or dirty objects in the session, load, load_by_id and
\* save_as without force raise and leave the store, the session, its pending
\* objects and the working database as they are; with force, or with a clean
\* session, the guard does not raise and a call that completes has committed.
C19_DirtySessionGuard ==
    [][/\ (sessionNew \cup sessionDirty # {} /\ GuardedCall(FALSE)) =>
            /\ err' = "Uncommitted transactions"
            /\ UNCHANGED <<store, session, sessionNew, sessionDirty,
                           channelDatabase, channelDict>>
       /\ (GuardedCall(TRUE)
            \/ (sessionNew \cup sessionDirty = {} /\ GuardedCall(FALSE))) =>
            /\ err' # "Uncommitted transactions"
            /\ err' = None =>
                /\ store' # store
                /\ store' = session'
                /\ sessionNew' \cup sessionDirty' = {}]_vars

\* load has raised for a session that holds a dirty object, which is still
\* pending
C19_Witness ==
    /\ call = "load"
    /\ err = "Uncommitted transactions"
    /\ sessionDirty # {}
    /\ session # store

\* C20: the store never holds more than one row labelled "working", and the
\* construction of a ChannelLibrary never ends in "More than one working
\* database exists!".
C20_SingleWorkingDatabase ==
    /\ Cardinality({r \in store : r.label = "working"}) <= 1
    /\ err # "More than one working database exists!"

\* C21: a creator called again with the label of the call before it creates
\* no new item: it returns the item the first call made, and an item that is
\* in the session has the attribute the second call's keyword argument gives.
C21_NoDuplicateItems ==
    [][\A label \in ChannelLabels, kwargs \in KeywordArguments :
        (\/ call = "new_qubit" /\ err = None /\ result.label = label
                /\ new_qubit(label, kwargs)
         \/ call = "new_TDM" /\ err = None /\ result.label = label
                /\ new_TDM(label, kwargs)) =>
            /\ result' = result
            /\ objects' = objects
            /\ sessionNew' = sessionNew
            /\ \A r \in session' :
                (kwargs # <<>> /\ r.id = result.owner /\ label \in DOMAIN r.channels)
                    => r.channels[label] = kwargs[1]]_vars

=============================================================================
